---- MODULE Spec2Model ----
(***************************************************************************)
(* On-toolhead memory of the cocoa toolhead                                *)
(* (klippy/extras/cocoa_toolhead/memory.py): the 32-byte header codec, the *)
(* msgpack payload codec for the record, the byte-addressable device, and  *)
(* the attach / detach / autosave / save lifecycle of CocoaMemory under    *)
(* the single-threaded reactor.                                            *)
(*                                                                         *)
(* Python values are tagged tuples: <<"none">>, <<"int", n>>,              *)
(* <<"str", bytes>>, <<"map", items>> where items is the insertion-ordered *)
(* sequence of <<key, value>> pairs of a dict and a key is the byte tuple  *)
(* of a str.  An optional Header is <<>> (None) or <<h>>.      *)
(***************************************************************************)
EXTENDS Integers, Sequences, FiniteSets, TLC

\* ------------------------------------------------------------------ bounds
MaxTime == 1
MaxUid == 1
MaxPending == 2

\* ------------------------------------------------------- program constants
HEADER_SIZE == 32
VERSION == 1
PAGE_SIZE == 256
HEADER_ADDRESS == 0

MAGIC == <<192, 192>>
NULL_CRC16 == <<255, 255>>

\* --------------------------------------------------------------- bit tools
RECURSIVE XorBits(_, _, _)
XorBits(a, b, n) ==
    IF n = 0 THEN 0
    ELSE ((a + b) % 2) + 2 * XorBits(a \div 2, b \div 2, n - 1)

\* a ^ b on bytes, tabulated
Xor8 == [a \in 0..255 |-> [b \in 0..255 |-> XorBits(a, b, 8)]]

Xor16(a, b) ==
    Xor8[a % 256][b % 256] + 256 * Xor8[(a \div 256) % 256][(b \div 256) % 256]

\* one byte of crc16_ccitt: data ^= crc & 0xff; data ^= (data & 0x0f) << 4;
\* crc = ((data << 8) | (crc >> 8)) ^ (data >> 4) ^ (data << 3).
\* CrcData[x] is the part of the new crc that depends on x = byte ^ (crc & 0xff)
\* only: (data << 8) ^ (data >> 4) ^ (data << 3); crc >> 8 is xored into its
\* low byte.
CrcData ==
    [x \in 0..255 |->
        LET data == Xor8[x][(x % 16) * 16]
        IN  Xor16(Xor16(data * 256, data \div 16), data * 8)]

CrcStep(crc, byte) ==
    Xor16(CrcData[Xor8[byte][crc % 256]], crc \div 256)

\* the loop over buf[lo..hi], split in halves so that its depth stays small
RECURSIVE CrcFold(_, _, _, _)
CrcFold(crc, buf, lo, hi) ==
    IF lo > hi THEN crc
    ELSE IF lo = hi THEN CrcStep(crc, buf[lo])
    ELSE LET mid == (lo + hi) \div 2
         IN  CHOOSE r \in {CrcFold(c, buf, mid + 1, hi) :
                              c \in {CrcFold(crc, buf, lo, mid)}} : TRUE

\* crc16_ccitt(buf) as the two bytes [crc >> 8, crc & 0xff]
crc16_ccitt(buf) ==
    LET crc == CrcFold(65535, buf, 1, Len(buf)) IN <<crc \div 256, crc % 256>>

\* ------------------------------------------------------------ header codec
Repeat(b, n) == [i \in 1..n |-> b]

LE(v, n) == [i \in 1..n |-> (v \div (256 ^ (i - 1))) % 256]

RECURSIVE FromLE(_)
FromLE(bs) == IF bs = <<>> THEN 0 ELSE Head(bs) + 256 * FromLE(Tail(bs))

\* uuid.uuid1(): the n-th identifier generated, as its 16 bytes
uuid1(n) == <<n>> \o Repeat(0, 15)

\* Header(...) with the dataclass defaults for everything but uid, timestamp
NewHeader(uid, ts) ==
    [magic |-> MAGIC, version |-> VERSION, uid |-> uid, timestamp |-> ts,
     data_page |-> 0, data_length |-> 0, data_checksum |-> NULL_CRC16]

\* struct.pack("<2sB16sxxIBH2s2s", ...)
Pack(h, hcrc) ==
    h.magic \o <<h.version>> \o h.uid \o <<0, 0>> \o LE(h.timestamp, 4)
    \o <<h.data_page>> \o LE(h.data_length, 2) \o h.data_checksum \o hcrc

\* to_bytes leaving the placeholder where the header checksum belongs
to_bytes_placeholder(h) == Pack(h, NULL_CRC16)

to_bytes(h) ==
    LET dat == Pack(h, NULL_CRC16)
    IN  SubSeq(dat, 1, HEADER_SIZE - 2)
        \o crc16_ccitt(SubSeq(dat, 1, HEADER_SIZE - 2))

\* from_bytes testing the checksum before the magic and the version
from_bytes_crc_first(v) ==
    IF crc16_ccitt(SubSeq(v, 1, Len(v) - 2)) # SubSeq(v, Len(v) - 1, Len(v))
    THEN <<"InvalidChecksum">>
    ELSE IF SubSeq(v, 1, 2) # MAGIC THEN <<"InvalidMagic">>
    ELSE IF v[3] # VERSION THEN <<"InvalidVersion">>
    ELSE <<"ok",
           [magic |-> SubSeq(v, 1, 2), version |-> v[3],
            uid |-> SubSeq(v, 4, 19),
            timestamp |-> FromLE(SubSeq(v, 22, 25)),
            data_page |-> v[26],
            data_length |-> FromLE(SubSeq(v, 27, 28)),
            data_checksum |-> SubSeq(v, 29, 30)]>>

\* Header.from_bytes: <<"InvalidMagic">>, <<"InvalidVersion">>,
\* <<"InvalidChecksum">> or <<"ok", header>>
from_bytes(v) ==
    IF SubSeq(v, 1, 2) # MAGIC THEN <<"InvalidMagic">>
    ELSE IF v[3] # VERSION THEN <<"InvalidVersion">>
    ELSE IF crc16_ccitt(SubSeq(v, 1, Len(v) - 2)) # SubSeq(v, Len(v) - 1, Len(v))
         THEN <<"InvalidChecksum">>
    ELSE <<"ok",
           [magic |-> SubSeq(v, 1, 2), version |-> v[3],
            uid |-> SubSeq(v, 4, 19),
            timestamp |-> FromLE(SubSeq(v, 22, 25)),
            data_page |-> v[26],
            data_length |-> FromLE(SubSeq(v, 27, 28)),
            data_checksum |-> SubSeq(v, 29, 30)]>>

\* Header.update leaving the length of the previous payload in place
update_stale_length(h, data, ts) ==
    [h EXCEPT !.timestamp = ts,
              !.data_checksum = crc16_ccitt(data)]

\* Header.update drawing a new identifier at every save
update_new_uid(h, data, ts) ==
    [h EXCEPT !.uid = uuid1(h.uid[1] + 1),
              !.timestamp = ts,
              !.data_length = Len(data),
              !.data_checksum = crc16_ccitt(data)]

\* Header.update moving on to the next data page
update_next_page(h, data, ts) ==
    [h EXCEPT !.timestamp = ts,
              !.data_page = (h.data_page + 1) % 2,
              !.data_length = Len(data),
              !.data_checksum = crc16_ccitt(data)]

\* Header.update(data=...): dataclasses.replace with timestamp, length, crc
update(h, data, ts) ==
    [h EXCEPT !.timestamp = ts,
              !.data_length = Len(data),
              !.data_checksum = crc16_ccitt(data)]

get_data_address(h) == PAGE_SIZE * (h.data_page + 1)

\* ------------------------------------------------------------ Python dicts
PyNone == <<"none">>
PyInt(n) == <<"int", n>>
PyStr(bs) == <<"str", bs>>
PyMap(items) == <<"map", items>>
IsMap(v) == v[1] = "map"

DictIndex(items, k) ==
    IF \E i \in 1..Len(items) : items[i][1] = k
    THEN CHOOSE i \in 1..Len(items) : items[i][1] = k
    ELSE 0

DictHas(items, k) == DictIndex(items, k) # 0

DictGet(items, k) == items[DictIndex(items, k)][2]

\* d[k] = v: an existing key keeps its position, a new key is appended
DictSet(items, k, v) ==
    IF DictHas(items, k)
    THEN [items EXCEPT ![DictIndex(items, k)] = <<k, v>>]
    ELSE Append(items, <<k, v>>)

\* del d[k]
DictDel(items, k) ==
    LET j == DictIndex(items, k)
    IN  SubSeq(items, 1, j - 1) \o SubSeq(items, j + 1, Len(items))

\* Python ==: dicts compare by content whatever the insertion order
RECURSIVE PyEq(_, _)
PyEq(a, b) ==
    IF IsMap(a) /\ IsMap(b)
    THEN /\ Len(a[2]) = Len(b[2])
         /\ \A i \in 1..Len(a[2]) :
                /\ DictHas(b[2], a[2][i][1])
                /\ PyEq(a[2][i][2], DictGet(b[2], a[2][i][1]))
    ELSE a = b

\* bool(v)
Truthy(v) ==
    CASE v[1] = "none" -> FALSE
      [] v[1] = "int" -> v[2] # 0
      [] v[1] = "str" -> v[2] # <<>>
      [] v[1] = "map" -> v[2] # <<>>

\* plain assignment in place of a copy: v itself
same_object(v) == [value |-> v, shares |-> "all"]

\* copy.copy in place of copy.deepcopy: the mappings inside v are shared
shallow_copy(v) == [value |-> v, shares |-> "nested"]

\* copy.deepcopy: a new object of equal content that shares nothing with v
deepcopy(v) == [value |-> v, shares |-> "none"]

\* ----------------------------------------------------------- payload codec
\* msgpack.dumps for nil, fixint, fixstr and fixmap
RECURSIVE packb(_)
RECURSIVE PackItems(_, _)
PackItems(items, i) ==
    IF i > Len(items) THEN <<>>
    ELSE packb(PyStr(items[i][1])) \o packb(items[i][2]) \o PackItems(items, i + 1)

packb(v) ==
    CASE v[1] = "none" -> <<192>>
      [] v[1] = "int" -> IF v[2] >= 0 THEN <<v[2]>> ELSE <<256 + v[2]>>
      [] v[1] = "str" -> <<160 + Len(v[2])>> \o v[2]
      [] v[1] = "map" -> <<128 + Len(v[2])>> \o PackItems(v[2], 1)

\* msgpack.loads: <<ok, value, next index>> for the object starting at data[i]
ParseFail == <<FALSE, PyNone, 0>>

RECURSIVE ParseVal(_, _)
RECURSIVE ParseItems(_, _, _, _)
ParseItems(data, i, n, acc) ==
    IF n = 0 THEN <<TRUE, PyMap(acc), i>>
    ELSE LET k == ParseVal(data, i)
         IN  IF ~k[1] \/ k[2][1] # "str" THEN ParseFail
             ELSE LET v == ParseVal(data, k[3])
                  IN  IF ~v[1] THEN ParseFail
                      ELSE ParseItems(data, v[3], n - 1,
                                      DictSet(acc, k[2][2], v[2]))

ParseVal(data, i) ==
    IF i > Len(data) THEN ParseFail
    ELSE LET b == data[i]
         IN  CASE b <= 127 -> <<TRUE, PyInt(b), i + 1>>
               [] b >= 128 /\ b <= 143 -> ParseItems(data, i + 1, b - 128, <<>>)
               [] b >= 160 /\ b <= 191 ->
                    IF i + (b - 160) > Len(data) THEN ParseFail
                    ELSE <<TRUE, PyStr(SubSeq(data, i + 1, i + (b - 160))),
                           i + (b - 160) + 1>>
               [] b = 192 -> <<TRUE, PyNone, i + 1>>
               [] b >= 224 -> <<TRUE, PyInt(b - 256), i + 1>>
               [] OTHER -> ParseFail

\* <<"ok", value>>, or <<"error">> for truncated input, trailing bytes or a
\* map key that is no str
unpackb(data) ==
    LET r == ParseVal(data, 1)
    IN  IF r[1] /\ r[3] = Len(data) + 1 THEN <<"ok", r[2]>> ELSE <<"error">>

\* ------------------------------------------------------------------ device
\* The byte-addressable memory as the bytes written from each base address
\* used; every byte never written reads 0xff.
Addresses == {HEADER_ADDRESS, PAGE_SIZE, 2 * PAGE_SIZE}

BlankDevice == [a \in Addresses |-> <<>>]

MemRead(mem, addr, n) ==
    [i \in 1..n |-> IF i <= Len(mem[addr]) THEN mem[addr][i] ELSE 255]

MemWrite(mem, addr, bytes) ==
    [mem EXCEPT ![addr] = bytes \o SubSeq(@, Len(bytes) + 1, Len(@))]

\* --------------------------------------------------------- record contents
KEY_NAME == <<110, 97, 109, 101>>
KEY_K == <<107>>
KEY_HEATERS == <<104, 101, 97, 116, 101, 114, 115>>
Keys == {KEY_NAME}

\* generate_name(): one of the generated names
Names == {PyStr(<<97>>)}
Vals == Names \cup {PyStr(<<98>>)}

\* ADC readings in thousandths of full scale; receive_sensor_value compares
\* them with OPEN_ADC_VALUE = 0.99
\* the heater names _on_connect gives inject_temp_callback, and targets
HeaterNames == {<<98, 111, 100, 121>>}
Targets == {0, 60}

OPEN_ADC_VALUE == 990
Readings == {500, 990, 998}

\* ------------------------------------------------------------------- state
VARIABLES
    eeprom,       \* the memory device of the tool
    attached,     \* CocoaToolheadControl.attached: "None", "True", "False"
    emitted,      \* the last cocoa_toolhead event sent: "none", "attached", "detached"
    connected,    \* CocoaMemory.connected
    header,       \* CocoaMemory.header: <<>> or <<h>>
    config,       \* CocoaMemory.config
    last_header,  \* CocoaMemory._last_header
    last_config,  \* CocoaMemory._last_config
    save_timer,   \* TRUE while _save_timer has a waketime other than NEVER
    callbacks,    \* _attached callbacks registered with the reactor, not yet run
    pc,           \* "idle", or "save": inside save() between its two writes
    frame,        \* <<>>, or <<the locals of the save() in progress>>
    now,          \* timestamp_utc()
    uuids,        \* how many identifiers uuid1 has generated
    escaped,      \* exception that left a reactor callback, or "none"
    did,          \* what the latest step did: see Did
    lastSaved,    \* <<>>, or <<the record of the last completed save()>>
    trip,         \* since the objects were constructed: 0 no save() completed,
                  \* 1 one has, 2 a detach has followed the last one
    alias         \* the mutable structure the objects config and _last_config
                  \* share: "none"; "nested", the mappings inside them; "all",
                  \* they are one object

vars == <<eeprom, attached, emitted, connected, header, config, last_header,
          last_config, save_timer, callbacks, pc, frame, now, uuids, escaped,
          did, lastSaved, trip, alias>>

\* The latest step: the branch an _attached took, or "autosave" for a timer
\* callback (path; the end of a save() repeats its caller's), the readiness
\* event it sent (ready: "True", "False" or "none"),
\* the outcome of a facade call (ret) and the device writes issued so far by
\* the callback that ran, in order, each with its address and success; for
\* a sensor reading, the attachment state derived from it (reading: "True",
\* "False") and the cocoa_toolhead event it sent (event).
Quiet ==
    [path |-> "none", ready |-> "none", ret |-> "none", writes |-> <<>>,
     reading |-> "none", event |-> "none"]

\* devices as they exist before the first attach: never written; holding a
\* header of another format version; holding a header with a damaged
\* checksum; initialized with an empty record on data page 1
FactoryHeader == NewHeader(uuid1(0), 0)

InitDevices ==
    { BlankDevice,
      [BlankDevice EXCEPT ![HEADER_ADDRESS] =
          to_bytes([FactoryHeader EXCEPT !.version = VERSION + 1])],
      [BlankDevice EXCEPT ![HEADER_ADDRESS] =
          [to_bytes(FactoryHeader) EXCEPT ![HEADER_SIZE] = (@ + 1) % 256]],
      [BlankDevice EXCEPT ![HEADER_ADDRESS] =
          to_bytes([FactoryHeader EXCEPT !.data_page = 1])] }

\* CocoaToolheadControl.__init__ and CocoaMemory.__init__
Init ==
    /\ eeprom \in InitDevices
    /\ now = 0
    /\ uuids = 0
    /\ lastSaved = <<>>
    /\ attached = "None"
    /\ emitted = "none"
    /\ connected = FALSE
    /\ header = <<>>
    /\ config = PyNone
    /\ last_header = <<>>
    /\ last_config = PyNone
    /\ save_timer = FALSE
    /\ callbacks = 0
    /\ pc = "idle"
    /\ frame = <<>>
    /\ escaped = "none"
    /\ did = Quiet
    /\ trip = 0
    /\ alias = "none"

\* the reactor is between callbacks and no exception has stopped it
Idle == pc = "idle" /\ escaped = "none"

has_changes == ~PyEq(config, last_config)

\* ------------------------------------------------------------------ save()
\* save() with its writes swapped: the header goes out first
FirstWrite_header(new_header, data) ==
    [addr |-> HEADER_ADDRESS, bytes |-> to_bytes(new_header)]

\* the two device writes of save(), in program order
FirstWrite(new_header, data) ==
    [addr |-> get_data_address(new_header), bytes |-> data]

SecondWrite(new_header, data) ==
    [addr |-> HEADER_ADDRESS, bytes |-> to_bytes(new_header)]

\* save() from its start to the return of its first memory.write; h and cfg
\* are self.header and self.config as the caller left them, ok is whether the
\* write succeeds.  A failed write raises CommandError out of the callback.
save_begin(ctx, h, cfg, ok, d) ==
    LET data == packb(cfg)
        new_header == update(h, data, now)
        w == FirstWrite(new_header, data)
    IN  /\ did' = [d EXCEPT !.writes = <<[addr |-> w.addr, ok |-> ok]>>]
        /\ IF ok
           THEN /\ eeprom' = MemWrite(eeprom, w.addr, w.bytes)
                /\ pc' = "save"
                /\ frame' = <<[ctx |-> ctx, new_header |-> new_header,
                               data |-> data]>>
                /\ escaped' = "none"
           ELSE /\ eeprom' = eeprom
                /\ pc' = "idle"
                /\ frame' = <<>>
                /\ escaped' = "CommandError"

\* save() taking the new header and the snapshot before its second write
SaveEnd_commit_first(io) ==
    /\ pc = "save"
    /\ escaped = "none"
    /\ \E ok \in io :
        LET f == frame[1]
            w == SecondWrite(f.new_header, f.data)
            log == Append(did.writes, [addr |-> w.addr, ok |-> ok])
        IN  /\ pc' = "idle"
            /\ frame' = <<>>
            /\ IF ok
               THEN /\ eeprom' = MemWrite(eeprom, w.addr, w.bytes)
                    /\ header' = <<f.new_header>>
                    /\ last_config' = deepcopy(config).value
                    /\ alias' = deepcopy(config).shares
                    /\ lastSaved' = <<config>>
                    /\ trip' = 1
                    /\ save_timer' = IF f.ctx = "save" THEN save_timer
                                     ELSE TRUE
                    /\ did' = [Quiet EXCEPT
                                 !.path = f.ctx,
                                 !.ready = IF f.ctx = "initialize" THEN "True"
                                           ELSE "none",
                                 !.writes = log]
                    /\ UNCHANGED escaped
               ELSE /\ escaped' = "CommandError"
                    /\ save_timer' = IF f.ctx = "autosave" THEN FALSE
                                     ELSE save_timer
                    /\ did' = [Quiet EXCEPT !.path = f.ctx,
                                                       !.writes = log]
                    /\ header' = <<f.new_header>>
                    /\ last_config' = deepcopy(config).value
                    /\ alias' = deepcopy(config).shares
                    /\ UNCHANGED <<eeprom, lastSaved, trip>>
    /\ UNCHANGED <<attached, emitted, connected, config, last_header, callbacks, now,
                   uuids>>

\* save() remembering the header it wrote as the last header as well
SaveEnd_remember_header(io) ==
    /\ pc = "save"
    /\ escaped = "none"
    /\ \E ok \in io :
        LET f == frame[1]
            w == SecondWrite(f.new_header, f.data)
            log == Append(did.writes, [addr |-> w.addr, ok |-> ok])
        IN  /\ pc' = "idle"
            /\ frame' = <<>>
            /\ IF ok
               THEN /\ eeprom' = MemWrite(eeprom, w.addr, w.bytes)
                    /\ header' = <<f.new_header>>
                    /\ last_header' = <<f.new_header>>
                    /\ last_config' = deepcopy(config).value
                    /\ alias' = deepcopy(config).shares
                    /\ lastSaved' = <<config>>
                    /\ trip' = 1
                    /\ save_timer' = IF f.ctx = "save" THEN save_timer
                                     ELSE TRUE
                    /\ did' = [Quiet EXCEPT
                                 !.path = f.ctx,
                                 !.ready = IF f.ctx = "initialize" THEN "True"
                                           ELSE "none",
                                 !.writes = log]
                    /\ UNCHANGED escaped
               ELSE /\ escaped' = "CommandError"
                    /\ save_timer' = IF f.ctx = "autosave" THEN FALSE
                                     ELSE save_timer
                    /\ did' = [Quiet EXCEPT !.path = f.ctx,
                                                       !.writes = log]
                    /\ UNCHANGED <<eeprom, header, last_config, lastSaved,
                                   trip,
                                   alias, last_header>>
    /\ UNCHANGED <<attached, emitted, connected, config, callbacks, now, uuids>>

\* the rest of save(): the second memory.write, then the new header and the
\* snapshot are committed; then the caller goes on: _attached arms the timer
\* and sends the ready event, _autosave returns the next waketime
SaveEnd(io) ==
    /\ pc = "save"
    /\ escaped = "none"
    /\ \E ok \in io :
        LET f == frame[1]
            w == SecondWrite(f.new_header, f.data)
            log == Append(did.writes, [addr |-> w.addr, ok |-> ok])
        IN  /\ pc' = "idle"
            /\ frame' = <<>>
            /\ IF ok
               THEN /\ eeprom' = MemWrite(eeprom, w.addr, w.bytes)
                    /\ header' = <<f.new_header>>
                    /\ last_config' = deepcopy(config).value
                    /\ alias' = deepcopy(config).shares
                    /\ lastSaved' = <<config>>
                    /\ trip' = 1
                    /\ save_timer' = IF f.ctx = "save" THEN save_timer
                                     ELSE TRUE
                    /\ did' = [Quiet EXCEPT
                                 !.path = f.ctx,
                                 !.ready = IF f.ctx = "initialize" THEN "True"
                                           ELSE "none",
                                 !.writes = log]
                    /\ UNCHANGED escaped
               ELSE /\ escaped' = "CommandError"
                    /\ save_timer' = IF f.ctx = "autosave" THEN FALSE
                                     ELSE save_timer
                    /\ did' = [Quiet EXCEPT !.path = f.ctx,
                                                       !.writes = log]
                    /\ UNCHANGED <<eeprom, header, last_config, lastSaved,
                                   trip,
                                   alias>>
    /\ UNCHANGED <<attached, emitted, connected, config, last_header, callbacks, now,
                   uuids>>

\* --------------------------------------------------- attach, detach, timer
\* _on_attach: register_callback(self._attached)
on_attach ==
    /\ callbacks < MaxPending
    /\ callbacks' = callbacks + 1
    /\ UNCHANGED <<eeprom, connected, header, config, last_header,
                   last_config, save_timer, pc, frame, now, uuids, escaped,
                   lastSaved, trip,
                   alias>>

\* _on_detach
on_detach ==
    /\ connected' = FALSE
    /\ header' = <<>>
    /\ config' = PyNone
    /\ save_timer' = FALSE
    /\ trip' = IF trip = 1 THEN 2 ELSE trip
    /\ alias' = "none"
    /\ UNCHANGED <<eeprom, last_header, last_config, callbacks, pc, frame,
                   now, uuids, escaped, lastSaved>>

\* receive_sensor_value sending an event for every reading
ReceiveSensorValue_every_reading(value) ==
    LET is_attached == IF value < OPEN_ADC_VALUE THEN "True" ELSE "False"
        event == IF is_attached = "True" THEN "attached" ELSE "detached"
    IN  /\ Idle
        /\ attached' = is_attached
        /\ emitted' = event
        /\ did' = [Quiet EXCEPT !.reading = is_attached, !.event = event]
        /\ IF is_attached = "True" THEN on_attach ELSE on_detach

\* receive_sensor_value: an event is sent when the attachment state read
\* from the sensor differs from the stored one
ReceiveSensorValue(value) ==
    LET is_attached == IF value < OPEN_ADC_VALUE THEN "True" ELSE "False"
        event == IF is_attached = "True" THEN "attached" ELSE "detached"
    IN  /\ Idle
        /\ IF is_attached # attached
           THEN /\ attached' = is_attached
                /\ emitted' = event
                /\ did' = [Quiet EXCEPT !.reading = is_attached,
                                        !.event = event]
                /\ IF is_attached = "True" THEN on_attach ELSE on_detach
           ELSE /\ did' = [Quiet EXCEPT !.reading = is_attached]
                /\ UNCHANGED <<eeprom, attached, emitted, connected, header,
                               config, last_header, last_config, save_timer,
                               callbacks, pc, frame, now, uuids, escaped,
                               lastSaved, trip, alias>>

\* _attached, the header read failing: lines 203-211
attached_read_failed ==
    /\ connected' = FALSE
    /\ did' = [Quiet EXCEPT !.path = "read_failed",
                                      !.ready = "False"]
    /\ UNCHANGED <<eeprom, header, config, last_header, last_config,
                   save_timer, pc, frame, uuids, escaped, lastSaved, trip,
                   alias>>

\* _attached, the header not decoding: lines 217-221, into save()
attached_initialize(name, wr_ok) ==
    LET h == NewHeader(uuid1(uuids + 1), now)
        cfg == PyMap(<<<<KEY_NAME, name>>>>)
    IN  /\ uuids < MaxUid
        /\ uuids' = uuids + 1
        /\ connected' = TRUE
        /\ header' = <<h>>
        /\ last_header' = <<h>>
        /\ config' = cfg
        /\ save_begin("initialize", h, cfg, wr_ok,
                      [Quiet EXCEPT !.path = "initialize"])
        /\ alias' = "none"
        /\ UNCHANGED <<last_config, save_timer, lastSaved, trip>>

\* _attached, the header decoded as h: lines 222-247
attached_load(h, rd_ok) ==
    LET shortcut == <<h>> = last_header /\ Truthy(last_config)
        data == MemRead(eeprom, get_data_address(h), h.data_length)
        loaded == unpackb(data)
        raised == IF h.data_length = 0 \/ shortcut THEN "none"
                  ELSE IF ~rd_ok THEN "CommandError"
                  ELSE IF loaded[1] # "ok" THEN "UnpackError"
                  ELSE "none"
        new_last == IF h.data_length > 0 /\ ~shortcut /\ raised = "none"
                    THEN loaded[2] ELSE last_config
        new_config == IF raised # "none" THEN config
                      ELSE IF h.data_length > 0 THEN deepcopy(new_last).value
                      ELSE PyMap(<<>>)
        thrown == IF raised # "none" THEN raised
                  ELSE IF ~IsMap(new_config) THEN "AttributeError"
                  ELSE "none"
    IN  /\ connected' = TRUE
        /\ header' = <<h>>
        /\ last_config' = new_last
        /\ config' = new_config
        /\ save_timer' = IF raised = "none" THEN TRUE ELSE save_timer
        /\ alias' = IF raised # "none" THEN alias
                    ELSE IF h.data_length > 0 THEN deepcopy(new_last).shares
                    ELSE "none"
        /\ escaped' = thrown
        /\ did' = [Quiet EXCEPT
                     !.path = IF h.data_length = 0 THEN "empty"
                              ELSE IF shortcut THEN "unchanged" ELSE "load",
                     !.ready = IF thrown = "none" THEN "True" ELSE "none"]
        /\ UNCHANGED <<eeprom, last_header, pc, frame, uuids, lastSaved,
                       trip>>

\* the reactor runs one registered _attached callback
Attached(io) ==
    /\ Idle
    /\ callbacks > 0
    /\ callbacks' = callbacks - 1
    /\ UNCHANGED <<attached, emitted, now>>
    /\ \E hdr_ok \in io, io_ok \in io, name \in Names :
        IF ~hdr_ok THEN attached_read_failed
        ELSE LET dec == from_bytes(MemRead(eeprom, HEADER_ADDRESS, HEADER_SIZE))
             IN  IF dec[1] # "ok" THEN attached_initialize(name, io_ok)
                 ELSE attached_load(dec[2], io_ok)

\* the reactor fires _save_timer: _autosave
Autosave(io) ==
    /\ Idle
    /\ save_timer
    /\ IF has_changes
       THEN IF header = <<>>
            THEN /\ escaped' = "AttributeError"
                 /\ save_timer' = FALSE
                 /\ did' = [Quiet EXCEPT !.path = "autosave"]
                 /\ UNCHANGED <<eeprom, pc, frame>>
            ELSE \E wr_ok \in io :
                 /\ save_begin("autosave", header[1], config, wr_ok,
                               [Quiet EXCEPT !.path = "autosave"])
                 /\ save_timer' = wr_ok
       ELSE /\ did' = [Quiet EXCEPT !.path = "autosave"]
            /\ UNCHANGED <<eeprom, pc, frame, escaped, save_timer>>
    /\ UNCHANGED <<attached, emitted, connected, header, config, last_header,
                   last_config, callbacks, now, uuids, lastSaved, trip,
                   alias>>

\* save() called from outside the class, on the reactor: without a header
\* self.header.update raises AttributeError
save(io) ==
    /\ Idle
    /\ IF header = <<>>
       THEN /\ escaped' = "AttributeError"
            /\ did' = [Quiet EXCEPT !.path = "save"]
            /\ UNCHANGED <<eeprom, pc, frame>>
       ELSE \E wr_ok \in io :
            save_begin("save", header[1], config, wr_ok,
                       [Quiet EXCEPT !.path = "save"])
    /\ UNCHANGED <<attached, emitted, connected, header, config, last_header,
                   last_config, save_timer, callbacks, now, uuids, lastSaved,
                   trip, alias>>

\* ------------------------------------------------------------------ facade
\* what a facade call leaves alone whatever its outcome
FacadeFrame ==
    UNCHANGED <<eeprom, attached, emitted, connected, header, last_header,
                save_timer, callbacks, pc, frame, now, uuids, escaped,
                lastSaved, trip, alias>>

\* self.config is changed in place to new: an object that is also
\* self._last_config changes with it
InPlace(new) ==
    /\ config' = new
    /\ last_config' = IF alias = "all" THEN new ELSE last_config

Returned(outcome) == did' = [Quiet EXCEPT !.ret = outcome]

has(key) ==
    /\ Idle
    /\ Returned(IF ~connected THEN "NotConnected"
                       ELSE IF ~IsMap(config) THEN "TypeError"
                       ELSE "Returned")
    /\ UNCHANGED <<config, last_config>>
    /\ FacadeFrame

\* get(key) and get(key, default)
get(key, with_default) ==
    /\ Idle
    /\ Returned(IF ~connected THEN "NotConnected"
                ELSE IF ~IsMap(config) THEN "AttributeError"
                ELSE IF ~DictHas(config[2], key) /\ ~with_default
                     THEN "KeyError"
                ELSE "Returned")
    /\ UNCHANGED <<config, last_config>>
    /\ FacadeFrame

\* set without its connection gate
set_ungated(key, val) ==
    /\ Idle
    /\ IF ~IsMap(config)
       THEN Returned("TypeError") /\ UNCHANGED <<config, last_config>>
       ELSE /\ Returned("Returned")
            /\ InPlace(PyMap(DictSet(config[2], key, val)))
    /\ FacadeFrame

set(key, val) ==
    /\ Idle
    /\ IF ~connected
       THEN Returned("NotConnected") /\ UNCHANGED <<config, last_config>>
       ELSE IF ~IsMap(config)
       THEN Returned("TypeError") /\ UNCHANGED <<config, last_config>>
       ELSE /\ Returned("Returned")
            /\ InPlace(PyMap(DictSet(config[2], key, val)))
    /\ FacadeFrame

setdefault(key, default) ==
    /\ Idle
    /\ IF ~connected
       THEN Returned("NotConnected") /\ UNCHANGED <<config, last_config>>
       ELSE IF ~IsMap(config)
       THEN Returned("AttributeError") /\ UNCHANGED <<config, last_config>>
       ELSE /\ Returned("Returned")
            /\ InPlace(IF DictHas(config[2], key) THEN config
                       ELSE PyMap(DictSet(config[2], key, default)))
    /\ FacadeFrame

delete(key) ==
    /\ Idle
    /\ IF ~connected
       THEN Returned("NotConnected") /\ UNCHANGED <<config, last_config>>
       ELSE IF ~IsMap(config)
       THEN Returned("TypeError") /\ UNCHANGED <<config, last_config>>
       ELSE /\ Returned("Returned")
            /\ InPlace(IF DictHas(config[2], key)
                       THEN PyMap(DictDel(config[2], key)) ELSE config)
    /\ FacadeFrame

\* the set_temp wrapper of inject_temp_callback:
\* if self.memory.connected:
\*     self.memory.setdefault("heaters", {})[name] = heater.target_temp
\* The mapping under "heaters" is changed in place: it is also inside
\* self._last_config when the two records are one object, or when they share
\* their inner mappings and _last_config has one under "heaters".
set_temp(name, degrees) ==
    /\ Idle
    /\ IF ~connected
       THEN did' = Quiet /\ UNCHANGED <<config, last_config>>
       ELSE IF ~IsMap(config)
       THEN Returned("AttributeError") /\ UNCHANGED <<config, last_config>>
       ELSE LET had == DictHas(config[2], KEY_HEATERS)
                heaters == IF had THEN DictGet(config[2], KEY_HEATERS)
                           ELSE PyMap(<<>>)
                changed == PyMap(DictSet(heaters[2], name, PyInt(degrees)))
                new == PyMap(DictSet(config[2], KEY_HEATERS, changed))
                inner_shared == /\ alias = "nested"
                                /\ had
                                /\ IsMap(last_config)
                                /\ DictHas(last_config[2], KEY_HEATERS)
            IN  /\ Returned("Returned")
                /\ config' = new
                /\ last_config' =
                      IF alias = "all" THEN new
                      ELSE IF inner_shared
                      THEN PyMap(DictSet(last_config[2], KEY_HEATERS, changed))
                      ELSE last_config
    /\ FacadeFrame

\* ------------------------------------------------------------- environment
\* the wall clock advances (seen by the program between callbacks only)
Tick ==
    /\ Idle
    /\ now < MaxTime
    /\ now' = now + 1
    /\ did' = Quiet
    /\ UNCHANGED <<eeprom, attached, emitted, connected, header, config, last_header,
                   last_config, save_timer, callbacks, pc, frame, uuids,
                   escaped, lastSaved, trip,
                   alias>>

\* the host process ends (power cut, or shutdown after an exception left a
\* callback) and is started again: the objects are constructed anew, the
\* device keeps its bytes
Restart ==
    /\ pc = "save" \/ escaped # "none" \/ attached # "None"
    /\ attached' = "None"
    /\ emitted' = "none"
    /\ connected' = FALSE
    /\ header' = <<>>
    /\ config' = PyNone
    /\ last_header' = <<>>
    /\ last_config' = PyNone
    /\ save_timer' = FALSE
    /\ callbacks' = 0
    /\ pc' = "idle"
    /\ frame' = <<>>
    /\ escaped' = "none"
    /\ did' = Quiet
    /\ trip' = 0
    /\ alias' = "none"
    /\ UNCHANGED <<eeprom, now, uuids, lastSaved>>

FacadeCall ==
    \/ \E key \in Keys : has(key)
    \/ \E key \in Keys, with_default \in BOOLEAN : get(key, with_default)
    \/ \E key \in Keys, val \in Vals : set(key, val)
    \/ \E key \in Keys, val \in Vals : setdefault(key, val)
    \/ \E key \in Keys : delete(key)

\* device reads and writes may fail, and the host may stop at any point
Next ==
    \/ \E value \in Readings : ReceiveSensorValue(value)
    \/ Attached(BOOLEAN)
    \/ SaveEnd(BOOLEAN)
    \/ Autosave(BOOLEAN)
    \/ FacadeCall
    \/ Tick
    \/ Restart

Spec == Init /\ [][Next]_vars

\* no device read or write fails and no save() is cut short
NextReliable ==
    \/ \E value \in Readings : ReceiveSensorValue(value)
    \/ Attached({TRUE})
    \/ SaveEnd({TRUE})
    \/ Autosave({TRUE})
    \/ FacadeCall
    \/ Tick
    \/ pc = "idle" /\ Restart

SpecReliable == Init /\ [][NextReliable]_vars

\* one run of the host with no device read or write failing, in which
\* save() is also called directly
NextSave ==
    \/ \E value \in Readings : ReceiveSensorValue(value)
    \/ Attached({TRUE})
    \/ SaveEnd({TRUE})
    \/ Autosave({TRUE})
    \/ save({TRUE})
    \/ FacadeCall
    \/ Tick

SpecSave == Init /\ [][NextSave]_vars

\* one run of the host with no device read or write failing, in which the
\* heaters' targets are set as well
NextHeaters ==
    \/ \E value \in Readings : ReceiveSensorValue(value)
    \/ Attached({TRUE})
    \/ SaveEnd({TRUE})
    \/ Autosave({TRUE})
    \/ FacadeCall
    \/ \E name \in HeaterNames, degrees \in Targets : set_temp(name, degrees)

SpecHeaters == Init /\ [][NextHeaters]_vars

\* ================================================================== claims
\* what the device holds, as a reader of it sees it
DeviceHeader == from_bytes(MemRead(eeprom, HEADER_ADDRESS, HEADER_SIZE))

\* the data_length bytes at the payload address of header h
DevicePayload(h) == MemRead(eeprom, PAGE_SIZE * (h.data_page + 1), h.data_length)

\* C1: crash consistency of save.  In every reachable device state, the
\* state between the two writes of a save and the state an interrupted save
\* leaves included, if the 32 bytes at address 0 decode as a valid header
\* then the data_length bytes at its payload address have the checksum the
\* header records.
C1_CrashConsistent ==
    DeviceHeader[1] = "ok" =>
        crc16_ccitt(DevicePayload(DeviceHeader[2])) = DeviceHeader[2].data_checksum

\* C2: write ordering of save.  A callback issues at most the two writes of
\* one save; the first goes to the payload address of the header being
\* written, the second to address 0 and only after the first succeeded; and
\* between the two the payload is on the device in full; a failed first
\* write ends the callback with no second write.
C2_WriteOrder ==
    LET w == did.writes
    IN  /\ Len(w) <= 2
        /\ Len(w) >= 1 =>
              /\ did.path \in {"initialize", "autosave"}
              /\ header # <<>>
              /\ w[1].addr = PAGE_SIZE * (header[1].data_page + 1)
        /\ Len(w) = 2 => w[1].ok /\ w[2].addr = HEADER_ADDRESS
        /\ pc = "save" <=> (Len(w) = 1 /\ w[1].ok /\ escaped = "none")
        /\ (Len(w) >= 1 /\ ~w[1].ok) => (Len(w) = 1 /\ escaped = "CommandError")
        /\ pc = "save" =>
              MemRead(eeprom, w[1].addr, Len(frame[1].data)) = frame[1].data

\* a save made by the autosave timer has issued both writes, in order
C2_Witness ==
    /\ did.path = "autosave"
    /\ Len(did.writes) = 2
    /\ did.writes[2].ok

\* C3: payload corruption detection.  When an _attached has read a valid
\* header with data_length > 0 and adopted the bytes at its payload address
\* as the record, those bytes have the checksum the header records.
C3_FailClosed ==
    (did.path = "load" /\ escaped \notin {"CommandError", "UnpackError"}) =>
        crc16_ccitt(DevicePayload(header[1])) = header[1].data_checksum

\* C4: dirty-gated autosave.  A timer callback that runs right after a
\* successful attach (the readiness event with connected = true was the
\* latest step, so nothing changed the record since) writes nothing; a timer
\* callback that finds the record changed by a facade call starts exactly one
\* write cycle; and once a write cycle has completed the record is clean, so
\* the timer callback that follows it writes nothing.
C4_DirtyGated ==
    [][/\ (did.ready = "True" /\ pc = "idle" /\ did'.path = "autosave")
            => did'.writes = <<>>
       /\ (did.ret = "Returned" /\ has_changes /\ did'.path = "autosave")
            => (Len(did'.writes) = 1 /\ pc' = "save")
       /\ (Len(did.writes) = 2 /\ did.writes[2].ok)
            => (~has_changes /\ (did'.path = "autosave" => did'.writes = <<>>))
      ]_vars

\* C5: no autosave for a disconnected device.  While the connected flag is
\* false or the latest lifecycle event is a detach, the autosave timer is not
\* armed and no save() is under way.
C5_NoAutosaveDisconnected ==
    (~connected \/ attached = "False") => (~save_timer /\ pc # "save")

\* C6: facade after detach.  While the latest lifecycle event is a detach,
\* a facade call that has just returned failed with NotConnected.
C6_FacadeAfterDetach ==
    (attached = "False" /\ did.ret # "none") => did.ret = "NotConnected"

\* C7: disconnected facade.  A facade call made while the connected flag is
\* false fails with NotConnected and changes neither the record, the
\* snapshot, the header nor the device.
C7_DisconnectedFacade ==
    [][(~connected /\ did'.ret # "none") =>
          /\ did'.ret = "NotConnected"
          /\ UNCHANGED <<config, last_config, header, eeprom>>]_vars

\* a facade call was refused while a record from an earlier attach is still
\* held in memory by a controller whose connected flag is false
C7_Witness ==
    /\ ~connected
    /\ did.ret = "NotConnected"
    /\ IsMap(config)

\* C8: persist-and-recover round trip, reads and writes never failing.  When
\* a save() has completed, the device holds at address 0 a valid header equal
\* to the current one and at 256 * (data_page + 1) the serialized current
\* record, with the checksum the header records; and an _attached that loads
\* a record from the device ends with the record of the last completed save
\* and the header the device holds.
C8_RoundTrip ==
    /\ (Len(did.writes) = 2 /\ did.writes[2].ok) =>
          /\ DeviceHeader = <<"ok", header[1]>>
          /\ MemRead(eeprom, 256 * (header[1].data_page + 1),
                     header[1].data_length) = packb(config)
          /\ crc16_ccitt(DevicePayload(header[1])) = header[1].data_checksum
          /\ lastSaved = <<config>>
    /\ (did.path = "load" /\ did.ready = "True") =>
          /\ lastSaved # <<>>
          /\ config = lastSaved[1]
          /\ header = <<DeviceHeader[2]>>
          /\ DeviceHeader[1] = "ok"

\* a record saved by this controller came back after a detach and re-attach
C8_Witness ==
    /\ trip = 2
    /\ did.path = "load"
    /\ did.ready = "True"
    /\ attached = "True"

\* C9: uid stability.  A step that changes the header bytes of a device
\* holding a valid header leaves a valid header with the same uid; and a new
\* uid is drawn only by an _attached whose header decode failed.
C9_UidStable ==
    [][/\ eeprom'[HEADER_ADDRESS] # eeprom[HEADER_ADDRESS]
            => \A old \in {DeviceHeader}, new \in {DeviceHeader'} :
                  old[1] = "ok" => (new[1] = "ok" /\ new[2].uid = old[2].uid)
       /\ uuids' # uuids
            => (DeviceHeader[1] # "ok" /\ did'.path = "initialize")
      ]_vars

\* a device initialized by this controller was saved to again: its header
\* carries the uid drawn at initialization and a later payload
C9_Witness ==
    /\ DeviceHeader[1] = "ok"
    /\ DeviceHeader[2].uid = uuid1(1)
    /\ did.path = "autosave"
    /\ Len(did.writes) = 2
    /\ did.writes[2].ok

\* C10: format errors self-heal.  An _attached whose header decode failed
\* ends with no exception raised, both writes of its save() done, the
\* controller connected with a header and a record holding only a name, the
\* autosave timer armed and the readiness event sent with connected = true.
C10_SelfHeal ==
    (did.path = "initialize" /\ pc = "idle") =>
        /\ escaped = "none"
        /\ Len(did.writes) = 2
        /\ did.writes[2].ok
        /\ connected
        /\ header # <<>>
        /\ \E name \in Names : config = PyMap(<<<<KEY_NAME, name>>>>)
        /\ save_timer
        /\ did.ready = "True"

\* C11: device I/O errors during attach.  An _attached in which a device
\* operation failed (the header read; or a memory.read / memory.write that
\* raised CommandError) ends with the controller disconnected, no exception
\* leaving the callback, and the readiness event sent with connected = false.
C11_AttachIOErrors ==
    (/\ pc = "idle"
     /\ did.path \in {"read_failed", "initialize", "load"}
     /\ (did.path = "read_failed" \/ escaped = "CommandError"
         \/ \E i \in 1..Len(did.writes) : ~did.writes[i].ok))
    => (/\ ~connected
        /\ escaped = "none"
        /\ did.ready = "False")

\* ============================================================ header codec
\* The codec on its own: a header as Header() or Header.update make it is
\* encoded, the 32 bytes are possibly changed on the device, and the block
\* is decoded.  pc runs "fresh" -> "updated" -> "encoded" -> "flipped" ->
\* "forged" -> "decoded"; last_header keeps the header that was encoded and
\* frame the change made to the block.
CodecUids == {uuid1(1), [i \in 1..16 |-> 16 * i - 1]}
CodecTimes == {1, 16909060}
CodecPayloads ==
    {<<>>, packb(PyMap(<<<<KEY_NAME, PyStr(<<97>>)>>>>)), Repeat(7, 300)}

CodecInit ==
    /\ eeprom = BlankDevice
    /\ now = 0
    /\ uuids = 0
    /\ lastSaved = <<>>
    /\ attached = "None"
    /\ emitted = "none"
    /\ connected = FALSE
    /\ \E uid \in CodecUids, ts \in CodecTimes : header = <<NewHeader(uid, ts)>>
    /\ config = PyNone
    /\ last_header = <<>>
    /\ last_config = PyNone
    /\ save_timer = FALSE
    /\ callbacks = 0
    /\ pc = "fresh"
    /\ frame = <<>>
    /\ escaped = "none"
    /\ did = Quiet
    /\ trip = 0
    /\ alias = "none"

CodecFrame ==
    UNCHANGED <<attached, emitted, connected, config, last_config, save_timer,
                callbacks, now, uuids, escaped, lastSaved, trip,
                alias>>

\* Header.update on a fresh header
CodecUpdate ==
    /\ pc = "fresh"
    /\ \E data \in CodecPayloads, ts \in CodecTimes :
          header' = <<update(header[1], data, ts)>>
    /\ pc' = "updated"
    /\ UNCHANGED <<eeprom, last_header, frame, did>>
    /\ CodecFrame

\* Header.to_bytes, the block put at address 0
CodecEncode ==
    /\ pc \in {"fresh", "updated"}
    /\ eeprom' = MemWrite(eeprom, HEADER_ADDRESS, to_bytes(header[1]))
    /\ last_header' = header
    /\ pc' = "encoded"
    /\ UNCHANGED <<header, frame, did>>
    /\ CodecFrame

\* x with bit b inverted
FlipBit(x, b) == IF (x \div (2 ^ b)) % 2 = 1 THEN x - 2 ^ b ELSE x + 2 ^ b

\* one bit of the stored block is inverted
CodecFlip ==
    /\ pc = "encoded"
    /\ \E i \in 1..HEADER_SIZE, b \in 0..7 :
          /\ eeprom' = [eeprom EXCEPT ![HEADER_ADDRESS][i] = FlipBit(@, b)]
          /\ frame' = <<[byte |-> i, bit |-> b, forged |-> FALSE]>>
    /\ pc' = "flipped"
    /\ UNCHANGED <<header, last_header, did>>
    /\ CodecFrame

\* a block whose magic or version was changed gets a header checksum that
\* fits its first 30 bytes
CodecForge ==
    /\ pc = "flipped"
    /\ frame[1].byte <= 3
    /\ LET blk == eeprom[HEADER_ADDRESS]
           body == SubSeq(blk, 1, HEADER_SIZE - 2)
       IN  eeprom' = [eeprom EXCEPT ![HEADER_ADDRESS] =
                         body \o crc16_ccitt(body)]
    /\ frame' = <<[frame[1] EXCEPT !.forged = TRUE]>>
    /\ pc' = "forged"
    /\ UNCHANGED <<header, last_header, did>>
    /\ CodecFrame

\* Header.from_bytes of the stored block: the error raised, or the header
CodecDecode ==
    /\ pc \in {"encoded", "flipped", "forged"}
    /\ LET dec == from_bytes(MemRead(eeprom, HEADER_ADDRESS, HEADER_SIZE))
       IN  /\ did' = [Quiet EXCEPT !.path = dec[1]]
           /\ header' = IF dec[1] = "ok" THEN <<dec[2]>> ELSE <<>>
    /\ pc' = "decoded"
    /\ UNCHANGED <<eeprom, last_header, frame>>
    /\ CodecFrame

CodecNext ==
    \/ CodecUpdate
    \/ CodecEncode
    \/ CodecFlip
    \/ CodecForge
    \/ CodecDecode

SpecCodec == CodecInit /\ [][CodecNext]_vars

\* C12: header round trip.  The encoding of a header made by Header() or by
\* Header.update on one is 32 bytes whose last two are the checksum of the
\* first 30, and decoding it succeeds and gives back the same header, field
\* for field.
C12_HeaderRoundTrip ==
    /\ pc = "encoded" =>
          LET blk == eeprom[HEADER_ADDRESS]
          IN  /\ Len(blk) = 32
              /\ SubSeq(blk, 31, 32) = crc16_ccitt(SubSeq(blk, 1, 30))
    /\ (pc = "decoded" /\ frame = <<>>) =>
          /\ did.path = "ok"
          /\ header # <<>>
          /\ \A f \in {"magic", "version", "uid", "timestamp", "data_page",
                       "data_length", "data_checksum"} :
                header[1][f] = last_header[1][f]

\* an updated header with a timestamp of four bytes and a length of two came
\* back from its encoding
C12_Witness ==
    /\ pc = "decoded"
    /\ frame = <<>>
    /\ did.path = "ok"
    /\ header[1].timestamp > 65535
    /\ header[1].data_length > 255

\* C13: decode error kind per region.  The block of a valid header changed
\* in its first two bytes fails to decode with InvalidMagic and changed in
\* its version byte with InvalidVersion, whether or not the header checksum
\* fits the changed block; changed by one bit anywhere else it fails with
\* InvalidChecksum; no header is returned.
C13_ErrorKind ==
    (pc = "decoded" /\ frame # <<>>) =>
        /\ did.path = IF frame[1].byte <= 2 THEN "InvalidMagic"
                      ELSE IF frame[1].byte = 3 THEN "InvalidVersion"
                      ELSE "InvalidChecksum"
        /\ header = <<>>

\* a block with a changed version byte and a fitting checksum was refused
C13_Witness ==
    /\ pc = "decoded"
    /\ frame # <<>>
    /\ frame[1].forged
    /\ frame[1].byte = 3
    /\ did.path = "InvalidVersion"

\* C20, as stated: snapshot isolation for dirty tracking.  A facade call or
\* heater-target hook that changes the content of the record of a connected
\* controller leaves the snapshot as it was and the record dirty.
C20_DirtyAfterMutation ==
    [][(connected /\ did'.ret = "Returned" /\ ~PyEq(config', config))
          => (last_config' = last_config /\ has_changes')]_vars

\* C20, amended: while connected the record and the snapshot share no
\* mutable structure; a call that changes the content of the record leaves
\* the snapshot as it was, and makes the record dirty when the record was
\* clean before (a call that puts the content of the snapshot back makes it
\* clean); and a dirty record becomes clean only by such a call, by a
\* completed save() or by an _attached that loads the record.
C20_SnapshotIsolation ==
    [][/\ connected' => alias' = "none"
       /\ (connected /\ did'.ret = "Returned" /\ ~PyEq(config', config))
            => /\ last_config' = last_config
               /\ ~has_changes => has_changes'
       /\ (connected /\ connected' /\ has_changes /\ ~has_changes')
            => \/ did'.ret = "Returned"
               \/ Len(did'.writes) = 2 /\ did'.writes[2].ok
               \/ did'.path \in {"load", "unchanged"}
      ]_vars

\* the target of a heater was changed inside the "heaters" mapping that the
\* snapshot has too: the snapshot keeps the old target and the record is
\* dirty
C20_Witness ==
    /\ connected
    /\ did.ret = "Returned"
    /\ IsMap(config) /\ DictHas(config[2], KEY_HEATERS)
    /\ IsMap(last_config) /\ DictHas(last_config[2], KEY_HEATERS)
    /\ DictGet(config[2], KEY_HEATERS) # DictGet(last_config[2], KEY_HEATERS)
    /\ has_changes

\* C14: facade operations never write the device.  A has, get, set,
\* setdefault or delete, whatever its outcome, issues no device write, starts
\* no save() and leaves the device, the header, the snapshot and the
\* autosave timer as they were; and a step that changes the device is part
\* of a save() made by _autosave or by the first initialization in _attached.
C14_FacadeNoWrite ==
    [][/\ did'.ret # "none"
            => /\ UNCHANGED <<eeprom, header, last_header, last_config,
                              save_timer>>
               /\ did'.writes = <<>>
               /\ did'.path = "none"
               /\ pc' = "idle"
       /\ eeprom' # eeprom
            => /\ did'.path \in {"autosave", "initialize"}
               /\ did'.ret = "none"
               /\ Len(did'.writes) >= 1
      ]_vars

\* a set went through on a connected controller with the timer armed and
\* left the record different from the snapshot
C14_Witness ==
    /\ did.ret = "Returned"
    /\ connected
    /\ save_timer
    /\ has_changes
    /\ IsMap(last_config)

\* C15: idempotent save.  When a save() of a record that is the one of the
\* last completed save() has made its first write, the bytes it wrote are
\* the payload the earlier header describes, at that header's payload
\* address, and the header it is about to write agrees with the earlier one
\* on magic, version, uid, data_page, data_length and data_checksum; when it
\* has completed, the device holds that header, valid.
C15_IdempotentSave ==
    /\ (pc = "save" /\ lastSaved = <<config>> /\ header # <<>>) =>
          LET old == header[1]
              new == frame[1].new_header
          IN  /\ DeviceHeader = <<"ok", old>>
              /\ did.writes[1].addr = get_data_address(old)
              /\ get_data_address(new) = get_data_address(old)
              /\ frame[1].data = packb(lastSaved[1])
              /\ Len(frame[1].data) = old.data_length
              /\ crc16_ccitt(frame[1].data) = old.data_checksum
              /\ \A f \in {"magic", "version", "uid", "data_page",
                           "data_length", "data_checksum"} : new[f] = old[f]
    /\ (did.path = "save" /\ Len(did.writes) = 2) =>
          /\ DeviceHeader = <<"ok", header[1]>>
          /\ lastSaved = <<config>>

\* a second save() of the same record is between its writes, at a later time
\* than the first
C15_Witness ==
    /\ pc = "save"
    /\ lastSaved = <<config>>
    /\ frame[1].ctx = "save"
    /\ header # <<>>
    /\ frame[1].new_header.timestamp # header[1].timestamp

\* C16: autosave always re-arms.  When a run of _autosave has ended, with
\* the record clean, with a save() done, or with a write of its save()
\* failed, the autosave timer is armed and no exception has left the callback.
C16_AutosaveRearms ==
    (did.path = "autosave" /\ pc = "idle") =>
        (save_timer /\ escaped = "none")

\* C17: no half-initialized Connected state.  Between callbacks, a
\* controller whose connected flag is true has a header and a record that is
\* a mapping.
C17_NoHalfInitialized ==
    (pc = "idle" /\ connected) => (header # <<>> /\ IsMap(config))

\* CocoaMemory.get_status
get_status ==
    [connected |-> connected,
     uid |-> IF header # <<>> THEN PyStr(header[1].uid) ELSE PyNone,
     timestamp |-> IF header # <<>> THEN PyInt(header[1].timestamp)
                   ELSE PyNone,
     config |-> config,
     changes_pending |-> ~PyEq(last_config, config)]

\* C18: header and record exist only while connected.  A controller whose
\* connected flag is false has no header and no record, and its status
\* reports no uid and no timestamp.
C18_AbsentWhileDisconnected ==
    ~connected =>
        /\ header = <<>>
        /\ config = PyNone
        /\ get_status.uid = PyNone
        /\ get_status.timestamp = PyNone

\* C19: save commits in-memory state only on success.  When the second
\* write of a save() succeeds, the current header is the one whose bytes now
\* are at address 0, the snapshot equals the record, and has_changes and
\* status changes_pending are false.  When the first or the second write
\* fails, the header is the one save() was called with, the snapshot is as
\* before, and the record is still dirty.
C19_CommitOnSuccess ==
    [][/\ (pc = "save" /\ Len(did'.writes) = 2 /\ did'.writes[2].ok)
            => /\ header' = <<frame[1].new_header>>
               /\ eeprom'[HEADER_ADDRESS] = to_bytes(frame[1].new_header)
               /\ last_config' = config'
               /\ ~has_changes'
               /\ ~get_status'.changes_pending
       /\ (pc = "save" /\ Len(did'.writes) = 2 /\ ~did'.writes[2].ok)
            => /\ UNCHANGED <<header, last_config, eeprom>>
               /\ has_changes'
       /\ (pc = "idle" /\ Len(did'.writes) = 1 /\ ~did'.writes[1].ok)
            => /\ UNCHANGED <<last_config, eeprom>>
               /\ did'.path = "autosave" => UNCHANGED header
               /\ did'.path = "initialize" =>
                     (header' = last_header' /\ header'[1].data_length = 0)
               /\ has_changes'
      ]_vars

\* the header write of a save() made by _autosave failed: the controller
\* still has the earlier header and a dirty record
C19_Witness ==
    /\ did.path = "autosave"
    /\ Len(did.writes) = 2
    /\ ~did.writes[2].ok
    /\ escaped = "CommandError"
    /\ has_changes
    /\ header # <<>>

\* C21: the unchanged-data shortcut is never taken.  No run of _attached
\* that decodes a valid header with data_length > 0 goes through the branch
\* that reuses the cached record: each one reads the payload from the
\* device, because the remembered last header is either absent or a header
\* as the constructor makes it, with data_length 0, data_page 0 and the
\* placeholder data checksum.
C21_ShortcutUnreachable ==
    /\ did.path # "unchanged"
    /\ \/ last_header = <<>>
       \/ /\ last_header[1].data_length = 0
          /\ last_header[1].data_page = 0
          /\ last_header[1].data_checksum = NULL_CRC16
    /\ \A h \in {header[i] : i \in 1..Len(header)} :
          (pc = "idle" /\ h.data_length > 0) => <<h>> # last_header

\* the device this controller initialized and saved to is attached again:
\* a last header is remembered, the cached record is non-empty, the header
\* on the device has the remembered uid, and the payload was read anyway
C21_Witness ==
    /\ did.path = "load"
    /\ did.ready = "True"
    /\ last_header # <<>>
    /\ Truthy(last_config)
    /\ header # <<>>
    /\ header[1].uid = last_header[1].uid
    /\ header[1].data_length > 0
    /\ config = last_config

\* the event that tells of an attachment state
EventOf(state) ==
    IF state = "True" THEN "attached"
    ELSE IF state = "False" THEN "detached" ELSE "none"

\* C22: attach and detach signals strictly alternate.  A sensor reading
\* sends an event exactly when the attachment state derived from it differs
\* from the stored one, so the first reading always sends one; the event
\* sent is the one of the derived state and is never the same as the event
\* sent before it; the stored attached flag changes with an event only, and
\* always equals the kind of the last event sent.
C22_SignalsAlternate ==
    [][/\ did'.reading # "none"
            => /\ did'.event # "none" <=> did'.reading # attached
               /\ attached = "None" => did'.event # "none"
               /\ did'.event \in {"none", EventOf(did'.reading)}
       /\ did'.event # "none"
            => /\ did'.event # emitted
               /\ emitted' = did'.event
               /\ did'.reading # "none"
       /\ did'.event = "none" => (emitted' = emitted \/ emitted' = "none")
       /\ attached' = attached \/ did'.event # "none" \/ attached' = "None"
       /\ EventOf(attached') = emitted'
      ]_vars

\* a tool that was attached and then taken off is attached again: the third
\* event of the controller, sent by a reading below the open-circuit value
\* while the stored state was detached
C22_Witness ==
    /\ did.reading = "True"
    /\ did.event = "attached"
    /\ emitted = "attached"
    /\ attached = "True"
    /\ last_header # <<>>
    /\ callbacks >= 1

====
